---- MODULE Spec2Model ----
(***************************************************************************)
(* Model of server.js: the POST /api/compress handler, computePSNR,        *)
(* qualityToPercent and inferLossType.                                     *)
(*                                                                         *)
(* Numbers.  A quality is a JavaScript number; the model keeps it in       *)
(* fixed point, as an integer count of 1/QScale (0.8 is 800, 80 is 80000). *)
(* A PSNR is null, NaN, Infinity or 10*log10(num/den); the model keeps the *)
(* exact argument num/den of the logarithm.                                *)
(*                                                                         *)
(* Strings built by concatenation (file names, urls, labels) are tuples of *)
(* their parts.  A JavaScript object is a record whose DOMAIN holds the    *)
(* keys that are present.                                                  *)
(***************************************************************************)
EXTENDS Integers, Sequences, FiniteSets, TLC

VARIABLES
  \* ---- POST /api/compress, one entry per request slot ----
  req,             \* the request: req[r].file (when present), req[r].body
  pc,              \* where the handler of request r is suspended
  baseName,        \* const baseName
  metadata,        \* const metadata
  originalSize,    \* const originalSize
  originalRaw,     \* originalRaw  (data of the raw decode)
  originalInfo,    \* originalInfo (info of the raw decode)
  variantsConfig,  \* let variantsConfig
  idx,             \* position of the for..of loop in variantsConfig
  results,         \* const results
  size,            \* const size of the variant being processed
  compressedRaw,   \* compressedRaw of the latest re-decode
  responses,       \* what was sent on res, in order
  ops,             \* log of the calls made on sharp, fs and JSON
  failedAt,        \* the call that threw or rejected ("none" when none did)
  files,           \* the upload directories: path -> [data, by]
  \* ---- computePSNR on its own ----
  buf1, buf2, psnrOut, edits,
  \* ---- qualityToPercent on its own ----
  qIn, qOut

handlerVars == <<req, pc, baseName, metadata, originalSize, originalRaw,
                 originalInfo, variantsConfig, idx, results, size, compressedRaw,
                 responses, ops, failedAt, files>>
psnrVars == <<buf1, buf2, psnrOut, edits>>
qVars == <<qIn, qOut>>
vars == <<handlerVars, psnrVars, qVars>>

(***************************************************************************)
(* Bounds of the model.                                                    *)
(***************************************************************************)
MaxPlanLen == 2      \* longest caller-supplied config array
NumBaseNames == 2    \* distinct values Date.now()+'-'+random can take
MaxPixels == 2       \* longest buffer given to computePSNR alone, in pixels
MaxEdits == 2        \* bytes changed in the buffers given to computePSNR
MaxQuality == 102    \* largest quality given to qualityToPercent alone

(***************************************************************************)
(* Fixed point and program constants.                                      *)
(***************************************************************************)
QScale == 1000
MAX_I == 255

Has(obj, key) == key \in DOMAIN obj

(***************************************************************************)
(* Math.round(num/den) for den > 0: the integer n with n - 1/2 <= x < n+1/2*)
(***************************************************************************)
MathRound(num, den) == (2 * num + den) \div (2 * den)

(***************************************************************************)
(* qualityToPercent(q), q in units of 1/QScale.                            *)
(***************************************************************************)
qualityToPercentOffByThreshold(q) ==
  IF q < QScale THEN MathRound(q * 100, QScale) ELSE MathRound(q, QScale)

qualityToPercent(q) ==
  IF q <= QScale THEN MathRound(q * 100, QScale) ELSE MathRound(q, QScale)

(***************************************************************************)
(* inferLossType(format)                                                   *)
(***************************************************************************)
ToLowerCase(s) ==
  CASE s = "JPEG" -> "jpeg"
    [] s = "PNG"  -> "png"
    [] s = "WEBP" -> "webp"
    [] s = "AVIF" -> "avif"
    [] s = "GIF"  -> "gif"
    [] OTHER      -> s

ToUpperCase(s) ==
  CASE s = "jpeg" -> "JPEG"
    [] s = "png"  -> "PNG"
    [] s = "webp" -> "WEBP"
    [] s = "avif" -> "AVIF"
    [] s = "gif"  -> "GIF"
    [] OTHER      -> s

inferLossType(format) ==
  IF ToLowerCase(format) = "png" THEN "lossless" ELSE "lossy"

(***************************************************************************)
(* computePSNR(buf1, buf2).  Reading a buffer past its end gives           *)
(* undefined, and arithmetic on undefined gives NaN.                       *)
(***************************************************************************)
Null == [kind |-> "null"]
NaN == [kind |-> "NaN"]
Infinity == [kind |-> "Infinity"]

\* the indices i of the loop `for (i = 0; i < length; i += 4)`, 0-based
LoopIndices(length) == {i \in 0..(length - 1) : i % 4 = 0}

RECURSIVE SumOver(_, _)
SumOver(f, S) ==
  IF S = {} THEN 0
  ELSE LET i == CHOOSE j \in S : TRUE IN f[i] + SumOver(f, S \ {i})

\* the squared difference of a pixel with the alpha byte added to the error
SquaredDiffWithAlpha(b1, b2, i) ==
  LET rDiff == b1[i + 1] - b2[i + 1]
      gDiff == b1[i + 2] - b2[i + 2]
      bDiff == b1[i + 3] - b2[i + 3]
      aDiff == b1[i + 4] - b2[i + 4]
  IN rDiff * rDiff + gDiff * gDiff + bDiff * bDiff + aDiff * aDiff

\* rDiff*rDiff + gDiff*gDiff + bDiff*bDiff of the pixel at 0-based index i
SquaredDiff(b1, b2, i) ==
  LET rDiff == b1[i + 1] - b2[i + 1]
      gDiff == b1[i + 2] - b2[i + 2]
      bDiff == b1[i + 3] - b2[i + 3]
  IN rDiff * rDiff + gDiff * gDiff + bDiff * bDiff

computePSNR(b1, b2) ==
  IF Len(b1) # Len(b2) THEN Null
  ELSE
    LET length == Len(b1)
        idxs == LoopIndices(length)
        \* some read of i, i+1 or i+2 falls past the end of the buffer
        readsUndefined == \E i \in idxs : i + 2 > length - 1
        mseSum ==
          SumOver([i \in idxs |-> SquaredDiff(b1, b2, i)], idxs)
    IN
      \* pixels = length / 4; mse /= pixels * 3; 0 / 0 is NaN
      IF length = 0 \/ readsUndefined THEN NaN
      ELSE IF mseSum = 0 THEN Infinity
      ELSE [kind |-> "dB",
            num |-> MAX_I * MAX_I * 3 * length,
            den |-> 4 * mseSum]

(***************************************************************************)
(* The image-codec collaborator (sharp) and the file system.  An uploaded  *)
(* buffer is described by what sharp reports for it: its metadata, and the *)
(* data and info of its raw RGBA decode.  Encoding and decoding are        *)
(* functions of the bytes they are given.                                  *)
(***************************************************************************)
ImgRGB ==
  [name |-> "rgb",
   metadata |-> [width |-> 1, height |-> 1, format |-> "png"],
   info |-> [width |-> 1, height |-> 1],
   raw |-> <<10, 20, 30, 255>>,
   wide |-> <<10, 20, 30, 255>>]

\* a two-channel image: decoded from jpeg or png it keeps its channels,
\* decoded from webp or avif it comes back with three colour channels
ImgGrey ==
  [name |-> "grey",
   metadata |-> [width |-> 2, height |-> 1, format |-> "jpeg"],
   info |-> [width |-> 2, height |-> 1],
   raw |-> <<40, 255, 90, 255>>,
   wide |-> <<40, 40, 40, 255, 90, 90, 90, 255>>]

\* an image whose raw decode reports other dimensions than its metadata
ImgOdd ==
  [name |-> "odd",
   metadata |-> [width |-> 1, height |-> 2, format |-> "gif"],
   info |-> [width |-> 1, height |-> 1],
   raw |-> <<200, 100, 0, 255>>,
   wide |-> <<200, 100, 0, 255>>]

Images == {ImgRGB, ImgGrey, ImgOdd}

KnownFormats == {"jpeg", "png", "webp", "avif"}

\* sharp(fileBuffer).metadata()
SharpMetadata(fileBuffer) == fileBuffer.metadata

\* sharp(fileBuffer).raw().ensureAlpha().toBuffer({resolveWithObject: true})
SharpRaw(fileBuffer) == [data |-> fileBuffer.raw, info |-> fileBuffer.info]

\* pipeline.jpeg/webp/avif({quality}) throw unless quality is in 1..100;
\* pipeline.png() takes no quality
SharpAccepts(format, qualityPercent) ==
  format = "png" \/ qualityPercent \in 1..100

\* the bytes pipeline.toFile writes
Encoded(fileBuffer, format, qualityPercent) ==
  IF format = "png"
  THEN [src |-> fileBuffer, format |-> "png", quality |-> 100]
  ELSE [src |-> fileBuffer, format |-> format, quality |-> qualityPercent]

\* fs.statSync(path).size of a file holding `data`
StatSize(data) ==
  IF data.format = "png" THEN 60 + Len(data.src.raw)
  ELSE 10 + data.quality \div 2

\* sharp(path).raw().ensureAlpha().toBuffer(): the decode of `data`
DecodedRaw(data) ==
  LET base == IF data.format \in {"webp", "avif"}
              THEN data.src.wide ELSE data.src.raw
      loss == (100 - data.quality) \div 10
  IN [i \in DOMAIN base |->
        IF i % 4 = 1 THEN (base[i] + loss) % 256 ELSE base[i]]

(***************************************************************************)
(* The text of the config field, as a sequence of tokens, and JSON.parse.  *)
(***************************************************************************)
Tok(t) == [t |-> t]
ObjTok(v) == [t |-> "object", v |-> v]

RECURSIVE ArrayBody(_)
ArrayBody(items) ==
  IF items = <<>> THEN <<>>
  ELSE IF Len(items) = 1 THEN <<ObjTok(items[1])>>
  ELSE <<ObjTok(items[1]), Tok(",")>> \o ArrayBody(Tail(items))

\* JSON.stringify of an array of objects
ArrayText(items) == <<Tok("[")>> \o ArrayBody(items) \o <<Tok("]")>>

\* JSON.parse(text): [ok |-> FALSE] is a SyntaxError
JSONParse(text) ==
  LET n == Len(text)
      inner == SubSeq(text, 2, n - 1)
      m == Len(inner)
  IN
    IF n = 1 /\ text[1].t = "object"
      THEN [ok |-> TRUE, value |-> [kind |-> "object", v |-> text[1].v]]
    ELSE IF n = 1 /\ text[1].t \in {"null", "number"}
      THEN [ok |-> TRUE, value |-> [kind |-> text[1].t]]
    ELSE IF /\ n >= 2
            /\ text[1].t = "["
            /\ text[n].t = "]"
            /\ (m = 0 \/ m % 2 = 1)
            /\ \A i \in 1..m :
                 IF i % 2 = 1 THEN inner[i].t = "object" ELSE inner[i].t = ","
      THEN [ok |-> TRUE,
            value |-> [kind |-> "array",
                       items |-> [k \in 1..((m + 1) \div 2) |-> inner[2 * k - 1].v]]]
    ELSE [ok |-> FALSE]

ArrayIsArray(v) == v.kind = "array"

(***************************************************************************)
(* The default set of variants (the labels are transliterated).            *)
(***************************************************************************)
DefaultVariantsConfig ==
  << [format |-> "jpeg", quality |-> 200,  label |-> "JPEG (yakist 0.2)", lossType |-> "lossy"],
     [format |-> "jpeg", quality |-> 500,  label |-> "JPEG (yakist 0.5)", lossType |-> "lossy"],
     [format |-> "jpeg", quality |-> 800,  label |-> "JPEG (yakist 0.8)", lossType |-> "lossy"],
     [format |-> "webp", quality |-> 500,  label |-> "WebP (yakist 0.5)", lossType |-> "lossy"],
     [format |-> "webp", quality |-> 800,  label |-> "WebP (yakist 0.8)", lossType |-> "lossy"],
     [format |-> "avif", quality |-> 500,  label |-> "AVIF (yakist 0.5)", lossType |-> "lossy"],
     [format |-> "avif", quality |-> 800,  label |-> "AVIF (yakist 0.8)", lossType |-> "lossy"],
     [format |-> "png",  quality |-> 1000, label |-> "PNG (bez vtrat)",   lossType |-> "lossless"] >>

\* lines 110-136: the plan the loop runs over, and whether JSON.parse ran
ResolveConfigSkippingEmptyCheck(body) ==
  LET given == Has(body, "config") /\ body.config # <<>>
      parsed == IF given THEN JSONParse(body.config) ELSE [ok |-> FALSE]
      variants == IF parsed.ok THEN parsed.value ELSE Null
  IN [parsed |-> given,
      plan |-> IF ~ArrayIsArray(variants)
               THEN DefaultVariantsConfig ELSE variants.items]

ResolveConfig(body) ==
  LET given == Has(body, "config") /\ body.config # <<>>
      parsed == IF given THEN JSONParse(body.config) ELSE [ok |-> FALSE]
      variants == IF parsed.ok THEN parsed.value ELSE Null
  IN [parsed |-> given,
      plan |-> IF ~ArrayIsArray(variants) \/ Len(variants.items) = 0
               THEN DefaultVariantsConfig ELSE variants.items]

(***************************************************************************)
(* Lines 142-151: what the loop derives from one entry cfg.                *)
(***************************************************************************)
DefaultQuality == 800

\* x || y on a quality: 0 and a missing key are falsy
CfgFormat(cfg) ==
  ToLowerCase(IF Has(cfg, "format") /\ cfg.format # "" THEN cfg.format ELSE "jpeg")

CfgLabel(cfg) ==
  IF Has(cfg, "label") /\ cfg.label # ""
  THEN [text |-> cfg.label]
  ELSE [text |-> "synthesized",
        format |-> ToUpperCase(CfgFormat(cfg)),
        quality |-> IF Has(cfg, "quality") /\ cfg.quality # 0
                    THEN cfg.quality ELSE DefaultQuality]

CfgQ(cfg) == IF Has(cfg, "quality") THEN cfg.quality ELSE DefaultQuality

CfgLossType(cfg) ==
  IF Has(cfg, "lossType") /\ cfg.lossType # ""
  THEN cfg.lossType ELSE inferLossType(CfgFormat(cfg))

OutFileNameWithoutBase(base, format, qualityPercent) ==
  <<0, format, qualityPercent, IF format = "jpeg" THEN "jpg" ELSE format>>

OutFileName(base, format, qualityPercent) ==
  <<base, format, qualityPercent, IF format = "jpeg" THEN "jpg" ELSE format>>

OriginalFileName(base) == <<base, "-original.png">>

(***************************************************************************)
(* POST /api/compress.  The handler runs from one await to the next        *)
(* without interruption; an action is one such run.  A toFile writes its   *)
(* file by the time it resolves, and a decode reads its file by the time   *)
(* it resolves.                                                            *)
(***************************************************************************)
Reqs == {1, 2}
BaseNames == 1..NumBaseNames

Undefined == [kind |-> "undefined"]

BadRequest == [status |-> 400, body |-> [error |-> "no image file (field name: image)"]]
ServerError == [status |-> 500, body |-> [error |-> "internal server error"]]

Set(f, r, v) == [f EXCEPT ![r] = v]

\* what toFile leaves in directory dir: the file, and who wrote it
WriteFile(dir, name, data, r) ==
  [files EXCEPT ![dir] = (name :> [data |-> data, by |-> r]) @@ @]

\* the owner of the file a toFile is about to replace (0: there is none)
OwnerOf(dir, name) ==
  IF name \in DOMAIN files[dir] THEN files[dir][name].by ELSE 0

\* catch (err): the response of a failed request that still lists variants
CatchSendingPartial(r, step, log) ==
  /\ responses' = Set(responses, r,
       Append(responses[r],
              [status |-> 500,
               body |-> [error |-> "internal server error",
                         variants |-> results[r]]]))
  /\ pc' = Set(pc, r, "done")
  /\ failedAt' = Set(failedAt, r, step)
  /\ ops' = Set(ops, r, log)

\* catch (err) { console.error(err); res.status(500).json(...) }
Catch(r, step, log) ==
  /\ responses' = Set(responses, r, Append(responses[r], ServerError))
  /\ pc' = Set(pc, r, "done")
  /\ failedAt' = Set(failedAt, r, step)
  /\ ops' = Set(ops, r, log)

\* res.json({ original: {...}, variants: results })
SuccessBody(r, res) ==
  [original |-> [fileName |-> OriginalFileName(baseName[r]),
                 url |-> <<"/uploads/original/", OriginalFileName(baseName[r])>>,
                 size |-> originalSize[r],
                 width |-> metadata[r].width,
                 height |-> metadata[r].height,
                 format |-> metadata[r].format,
                 name |-> IF req[r].file.originalname # ""
                          THEN req[r].file.originalname ELSE "image"],
   variants |-> res]

\* the first entry at or after `from` that the loop does not skip
\* (the else branch `continue`s), or Len(plan) + 1
NextEncodedStoppingAtUnknown(plan, from) ==
  IF \E j \in from..Len(plan) : TRUE
  THEN IF CfgFormat(plan[from]) \in KnownFormats THEN from ELSE Len(plan) + 1
  ELSE Len(plan) + 1

NextEncoded(plan, from) ==
  IF \E j \in from..Len(plan) : CfgFormat(plan[j]) \in KnownFormats
  THEN CHOOSE j \in from..Len(plan) :
         /\ CfgFormat(plan[j]) \in KnownFormats
         /\ \A k \in from..(j - 1) : CfgFormat(plan[k]) \notin KnownFormats
  ELSE Len(plan) + 1

\* the loop from its entry `from` up to its next await, or to res.json
RunLoop(r, plan, from, res, log) ==
  LET j == NextEncoded(plan, from) IN
  /\ idx' = Set(idx, r, j)
  /\ IF j > Len(plan)
     THEN /\ responses' = Set(responses, r,
                 Append(responses[r], [status |-> 200, body |-> SuccessBody(r, res)]))
          /\ pc' = Set(pc, r, "done")
          /\ ops' = Set(ops, r, log)
          /\ UNCHANGED failedAt
     ELSE LET format == CfgFormat(plan[j])
              qualityPercent == qualityToPercent(CfgQ(plan[j]))
          IN IF ~SharpAccepts(format, qualityPercent)
             THEN Catch(r, "options", log)
             ELSE /\ pc' = Set(pc, r, "toFile")
                  /\ ops' = Set(ops, r, Append(log, [op |-> "encode", entry |-> j]))
                  /\ UNCHANGED <<responses, failedAt>>

\* lines 82-92 with the check of req.file made after the config is parsed
ReceiveCheckingLate(r) ==
  /\ pc[r] = "received"
  /\ \/ /\ ~Has(req[r], "file")
        /\ responses' = Set(responses, r, Append(responses[r], BadRequest))
        /\ pc' = Set(pc, r, "done")
        /\ ops' = Set(ops, r, IF ResolveConfig(req[r].body).parsed
                              THEN Append(ops[r], [op |-> "JSON.parse"]) ELSE ops[r])
        /\ UNCHANGED baseName
     \/ /\ Has(req[r], "file")
        /\ \E b \in BaseNames : baseName' = Set(baseName, r, b)
        /\ pc' = Set(pc, r, "metadata")
        /\ ops' = Set(ops, r, Append(ops[r], [op |-> "metadata"]))
        /\ UNCHANGED responses
  /\ UNCHANGED <<req, metadata, originalSize, originalRaw, originalInfo,
                 variantsConfig, idx, results, size, compressedRaw, failedAt, files>>
  /\ UNCHANGED <<psnrVars, qVars>>

\* lines 82-92
Receive(r) ==
  /\ pc[r] = "received"
  /\ \/ /\ ~Has(req[r], "file")
        /\ responses' = Set(responses, r, Append(responses[r], BadRequest))
        /\ pc' = Set(pc, r, "done")
        /\ UNCHANGED <<baseName, ops>>
     \/ /\ Has(req[r], "file")
        /\ \E b \in BaseNames : baseName' = Set(baseName, r, b)
        /\ pc' = Set(pc, r, "metadata")
        /\ ops' = Set(ops, r, Append(ops[r], [op |-> "metadata"]))
        /\ UNCHANGED responses
  /\ UNCHANGED <<req, metadata, originalSize, originalRaw, originalInfo,
                 variantsConfig, idx, results, size, compressedRaw, failedAt, files>>
  /\ UNCHANGED <<psnrVars, qVars>>

\* lines 92-98: metadata() settles
Metadata(r) ==
  /\ pc[r] = "metadata"
  /\ \/ /\ Catch(r, "metadata", ops[r])
        /\ UNCHANGED metadata
     \/ /\ metadata' = Set(metadata, r, SharpMetadata(req[r].file.buffer))
        /\ pc' = Set(pc, r, "persist")
        /\ ops' = Set(ops, r, Append(ops[r], [op |-> "encodeOriginal"]))
        /\ UNCHANGED <<responses, failedAt>>
  /\ UNCHANGED <<req, baseName, originalSize, originalRaw, originalInfo,
                 variantsConfig, idx, results, size, compressedRaw, files>>
  /\ UNCHANGED <<psnrVars, qVars>>

\* lines 98-107: originalSharp.png().toFile settles, then statSync
Persist(r) ==
  LET name == OriginalFileName(baseName[r])
      data == Encoded(req[r].file.buffer, "png", 100)
      wrote == Append(ops[r], [op |-> "toFile", dir |-> "original",
                               name |-> name, prev |-> OwnerOf("original", name)])
  IN
  /\ pc[r] = "persist"
  /\ \/ /\ Catch(r, "toFileOriginal", ops[r])
        /\ UNCHANGED <<files, originalSize>>
     \/ /\ files' = WriteFile("original", name, data, r)
        /\ Catch(r, "statOriginal", wrote)
        /\ UNCHANGED originalSize
     \/ /\ files' = WriteFile("original", name, data, r)
        /\ originalSize' = Set(originalSize, r, StatSize(data))
        /\ pc' = Set(pc, r, "raw")
        /\ ops' = Set(ops, r, Append(wrote, [op |-> "decodeOriginal"]))
        /\ UNCHANGED <<responses, failedAt>>
  /\ UNCHANGED <<req, baseName, metadata, originalRaw, originalInfo,
                 variantsConfig, idx, results, size, compressedRaw>>
  /\ UNCHANGED <<psnrVars, qVars>>

\* lines 104-168: the raw decode settles; the config is resolved and the
\* loop runs to its first toFile
Raw(r) ==
  /\ pc[r] = "raw"
  /\ \/ /\ Catch(r, "raw", ops[r])
        /\ UNCHANGED <<originalRaw, originalInfo, variantsConfig, idx, results>>
     \/ LET decoded == SharpRaw(req[r].file.buffer)
            resolved == ResolveConfig(req[r].body)
            log == IF resolved.parsed
                   THEN Append(ops[r], [op |-> "JSON.parse"]) ELSE ops[r]
        IN /\ originalRaw' = Set(originalRaw, r, decoded.data)
           /\ originalInfo' = Set(originalInfo, r, decoded.info)
           /\ variantsConfig' = Set(variantsConfig, r, resolved.plan)
           /\ results' = Set(results, r, <<>>)
           /\ RunLoop(r, resolved.plan, 1, <<>>, log)
  /\ UNCHANGED <<req, baseName, metadata, originalSize, size, compressedRaw, files>>
  /\ UNCHANGED <<psnrVars, qVars>>

\* lines 168-177: pipeline.toFile settles, then statSync
ToFile(r) ==
  LET cfg == variantsConfig[r][idx[r]]
      format == CfgFormat(cfg)
      qualityPercent == qualityToPercent(CfgQ(cfg))
      name == OutFileName(baseName[r], format, qualityPercent)
      data == Encoded(req[r].file.buffer, format, qualityPercent)
      wrote == Append(ops[r], [op |-> "toFile", dir |-> "compressed",
                               name |-> name, prev |-> OwnerOf("compressed", name)])
  IN
  /\ pc[r] = "toFile"
  /\ \/ /\ Catch(r, "toFile", ops[r])
        /\ UNCHANGED <<files, size>>
     \/ /\ files' = WriteFile("compressed", name, data, r)
        /\ Catch(r, "stat", wrote)
        /\ UNCHANGED size
     \/ /\ files' = WriteFile("compressed", name, data, r)
        /\ size' = Set(size, r, StatSize(data))
        /\ pc' = Set(pc, r, "decode")
        /\ ops' = Set(ops, r, wrote)
        /\ UNCHANGED <<responses, failedAt>>
  /\ UNCHANGED <<req, baseName, metadata, originalSize, originalRaw, originalInfo,
                 variantsConfig, idx, results, compressedRaw>>
  /\ UNCHANGED <<psnrVars, qVars>>

\* lines 179-186: the guarded call of computePSNR
GuardedPSNRTrustingLength(origRaw, origInfo, meta, compRaw) ==
  IF /\ origInfo.width = meta.width
     /\ origInfo.height = meta.height
  THEN computePSNR(origRaw, SubSeq(compRaw, 1, Len(origRaw)))
  ELSE Null

GuardedPSNR(origRaw, origInfo, meta, compRaw) ==
  IF /\ Len(compRaw) = Len(origRaw)
     /\ origInfo.width = meta.width
     /\ origInfo.height = meta.height
  THEN computePSNR(origRaw, compRaw)
  ELSE Null

\* lines 174-199, then the loop to its next toFile or to res.json
Decode(r) ==
  LET cfg == variantsConfig[r][idx[r]]
      format == CfgFormat(cfg)
      qualityPercent == qualityToPercent(CfgQ(cfg))
      name == OutFileName(baseName[r], format, qualityPercent)
      file == files["compressed"][name]
      raw == DecodedRaw(file.data)
      result == [label |-> CfgLabel(cfg),
                 format |-> format,
                 quality |-> qualityPercent,
                 fileName |-> name,
                 url |-> <<"/uploads/compressed/", name>>,
                 size |-> size[r],
                 compressionRatio |-> <<originalSize[r], size[r]>>,
                 psnr |-> GuardedPSNR(originalRaw[r], originalInfo[r], metadata[r], raw),
                 lossType |-> CfgLossType(cfg)]
      log == Append(ops[r], [op |-> "decode", dir |-> "compressed",
                             name |-> name, by |-> file.by])
  IN
  /\ pc[r] = "decode"
  /\ \/ /\ Catch(r, "decode", ops[r])
        /\ UNCHANGED <<compressedRaw, results, idx>>
     \/ /\ compressedRaw' = Set(compressedRaw, r, raw)
        /\ results' = Set(results, r, Append(results[r], result))
        /\ RunLoop(r, variantsConfig[r], idx[r] + 1, Append(results[r], result), log)
  /\ UNCHANGED <<req, baseName, metadata, originalSize, originalRaw, originalInfo,
                 variantsConfig, size, files>>
  /\ UNCHANGED <<psnrVars, qVars>>

(***************************************************************************)
(* The requests the model sends.                                           *)
(***************************************************************************)
EmptyObject == [k \in {} |-> 0]

Entries ==
  { [format |-> "jpeg", quality |-> 800],
    [format |-> "jpeg", quality |-> 80000],
    [format |-> "gif", quality |-> 500],
    [format |-> "png", quality |-> 0],
    [format |-> "avif", quality |-> 0],
    [format |-> "WEBP", quality |-> 500, label |-> "mine", lossType |-> "lossless"],
    EmptyObject }

Plans(maxLen) == UNION {[1..n -> Entries] : n \in 0..maxLen}

AnEntry == [format |-> "jpeg", quality |-> 800]

\* texts JSON.parse rejects, and texts it reads as something else than an array
InvalidTexts == { <<Tok("bad")>>,
                  <<Tok("["), ObjTok(AnEntry)>>,
                  <<Tok("["), ObjTok(AnEntry), Tok(","), Tok("]")>> }
NonArrayTexts == { <<Tok("null")>>, <<Tok("number")>>, <<ObjTok(AnEntry)>> }
EmptyText == <<>>

ConfigTexts ==
  {ArrayText(items) : items \in Plans(MaxPlanLen)}
    \cup InvalidTexts \cup NonArrayTexts \cup {EmptyText}

Bodies == {[config |-> text] : text \in ConfigTexts} \cup {EmptyObject}

Upload(img) == [buffer |-> img, originalname |-> "photo.png"]

Requests ==
  {[body |-> b] : b \in Bodies}
    \cup {[file |-> Upload(img), body |-> b] : img \in Images, b \in Bodies}

ConcurrentRequests ==
  {[file |-> Upload(img), body |-> [config |-> ArrayText(items)]] :
     img \in {ImgRGB, ImgGrey},
     items \in { <<[format |-> "jpeg", quality |-> 800]>>,
                 <<[format |-> "gif", quality |-> 500],
                   [format |-> "png", quality |-> 0]>> }}

NoRequest == [body |-> EmptyObject]

HandlerInit(requests, arrived) ==
  /\ req \in [Reqs -> requests \cup {NoRequest}]
  /\ \A r \in Reqs : IF r \in arrived THEN req[r] \in requests
                                      ELSE req[r] = NoRequest
  /\ pc = [r \in Reqs |-> IF r \in arrived THEN "received" ELSE "idle"]
  /\ baseName = [r \in Reqs |-> 0]
  /\ metadata = [r \in Reqs |-> Undefined]
  /\ originalSize = [r \in Reqs |-> 0]
  /\ originalRaw = [r \in Reqs |-> <<>>]
  /\ originalInfo = [r \in Reqs |-> Undefined]
  /\ variantsConfig = [r \in Reqs |-> <<>>]
  /\ idx = [r \in Reqs |-> 0]
  /\ results = [r \in Reqs |-> <<>>]
  /\ size = [r \in Reqs |-> 0]
  /\ compressedRaw = [r \in Reqs |-> <<>>]
  /\ responses = [r \in Reqs |-> <<>>]
  /\ ops = [r \in Reqs |-> <<>>]
  /\ failedAt = [r \in Reqs |-> "none"]
  /\ files = [original |-> <<>>, compressed |-> <<>>]

PSNRIdle == buf1 = <<>> /\ buf2 = <<>> /\ psnrOut = Undefined /\ edits = 0
QIdle == qIn = 0 /\ qOut = -1

(***************************************************************************)
(* Spec: one request.                                                      *)
(***************************************************************************)
Init == HandlerInit(Requests, {1}) /\ PSNRIdle /\ QIdle

Next ==
  \/ \E r \in Reqs : Receive(r)
  \/ \E r \in Reqs : Metadata(r)
  \/ \E r \in Reqs : Persist(r)
  \/ \E r \in Reqs : Raw(r)
  \/ \E r \in Reqs : ToFile(r)
  \/ \E r \in Reqs : Decode(r)

Spec == Init /\ [][Next]_vars

(***************************************************************************)
(* SpecConcurrent: two requests in flight, interleaved at their awaits.    *)
(***************************************************************************)
InitConcurrent == HandlerInit(ConcurrentRequests, Reqs) /\ PSNRIdle /\ QIdle

SpecConcurrent == InitConcurrent /\ [][Next]_vars

(***************************************************************************)
(* SpecPSNR: computePSNR on two buffers of the same length, starting equal *)
(* and changed one byte at a time.                                         *)
(***************************************************************************)
ByteVals == {0, 7, 255}

InitPSNR ==
  /\ HandlerInit({}, {}) /\ QIdle
  /\ \E n \in 1..MaxPixels, v \in ByteVals :
       /\ buf1 = [i \in 1..(4 * n) |-> v]
       /\ buf2 = [i \in 1..(4 * n) |-> v]
  /\ psnrOut = computePSNR(buf1, buf2)
  /\ edits = 0

\* change one R, G or B byte of one of the buffers
EditColour ==
  /\ edits < MaxEdits
  /\ \E i \in DOMAIN buf1, v \in ByteVals :
       /\ i % 4 # 0
       /\ \/ buf1' = [buf1 EXCEPT ![i] = v] /\ buf2' = buf2
          \/ buf2' = [buf2 EXCEPT ![i] = v] /\ buf1' = buf1
  /\ psnrOut' = computePSNR(buf1', buf2')
  /\ edits' = edits + 1
  /\ UNCHANGED <<handlerVars, qVars>>

\* change one alpha byte (every 4th byte) of one of the buffers
EditAlpha ==
  /\ edits < MaxEdits
  /\ \E i \in DOMAIN buf1, v \in ByteVals :
       /\ i % 4 = 0
       /\ \/ buf1' = [buf1 EXCEPT ![i] = v] /\ buf2' = buf2
          \/ buf2' = [buf2 EXCEPT ![i] = v] /\ buf1' = buf1
  /\ psnrOut' = computePSNR(buf1', buf2')
  /\ edits' = edits + 1
  /\ UNCHANGED <<handlerVars, qVars>>

NextPSNR == EditColour \/ EditAlpha

SpecPSNR == InitPSNR /\ [][NextPSNR]_vars

(***************************************************************************)
(* SpecQuality: qualityToPercent on every quality from 0 to MaxQuality in  *)
(* steps of 1/QScale.                                                      *)
(***************************************************************************)
InitQuality ==
  /\ HandlerInit({}, {}) /\ PSNRIdle
  /\ qIn \in 0..(MaxQuality * QScale)
  /\ qOut = -1

Normalize ==
  /\ qOut = -1
  /\ qOut' = qualityToPercent(qIn)
  /\ UNCHANGED <<qIn, handlerVars, psnrVars>>

NextQuality == Normalize

SpecQuality == InitQuality /\ [][NextQuality]_vars

(***************************************************************************)
(* Properties.                                                             *)
(***************************************************************************)
Last(seq) == seq[Len(seq)]

ToFileOps(r, dir) ==
  {i \in DOMAIN ops[r] : ops[r][i].op = "toFile" /\ ops[r][i].dir = dir}

DecodeOps(r) == {i \in DOMAIN ops[r] : ops[r][i].op = "decode"}

Answered(r) == pc[r] = "done"

Succeeded(r) ==
  /\ pc[r] = "done"
  /\ Len(responses[r]) = 1
  /\ responses[r][1].status = 200

\* the positions of the plan whose format, lower-cased and defaulted, is one
\* of the four formats, in plan order
RECURSIVE KnownPositions(_, _)
KnownPositions(plan, from) ==
  IF from > Len(plan) THEN <<>>
  ELSE IF CfgFormat(plan[from]) \in {"jpeg", "png", "webp", "avif"}
       THEN <<from>> \o KnownPositions(plan, from + 1)
       ELSE KnownPositions(plan, from + 1)

\* C1: when the metadata read, the original persist, the raw decode or a
\* variant's encode, stat or re-decode fails, also after some variants were
\* processed, the only response of the request is the status-500 generic
\* error body without a variants list, and nothing more is encoded, written
\* or sent after the failing step.
C1_FailureAnswers500AndStops ==
  /\ [](\A r \in Reqs :
          failedAt[r] # "none" =>
            /\ pc[r] = "done"
            /\ Len(responses[r]) = 1
            /\ responses[r][1].status = 500
            /\ DOMAIN responses[r][1].body = {"error"})
  /\ [][\A r \in Reqs :
          failedAt[r] # "none" =>
            /\ ops'[r] = ops[r]
            /\ responses'[r] = responses[r]
            /\ files' = files]_vars

C1_Witness ==
  /\ failedAt[1] \in {"toFile", "stat", "decode"}
  /\ Len(results[1]) >= 1
  /\ idx[1] < Len(variantsConfig[1])
  /\ responses[1] = <<ServerError>>

FallsBack(body) ==
  \/ ~Has(body, "config")
  \/ /\ Has(body, "config")
     /\ body.config \in InvalidTexts \cup NonArrayTexts \cup {EmptyText, ArrayText(<<>>)}

C3_FallbackToDefaultPlan ==
  \A r \in Reqs :
    (Has(req[r], "file") /\ FallsBack(req[r].body)) =>
      /\ idx[r] > 0 =>
           /\ Len(variantsConfig[r]) = 8
           /\ [k \in 1..8 |-> <<variantsConfig[r][k].format, variantsConfig[r][k].quality>>]
                = << <<"jpeg", 200>>, <<"jpeg", 500>>, <<"jpeg", 800>>,
                     <<"webp", 500>>, <<"webp", 800>>,
                     <<"avif", 500>>, <<"avif", 800>>, <<"png", 1000>> >>
      /\ failedAt[r] # "options"
      /\ (Answered(r) /\ failedAt[r] = "none") =>
           /\ Succeeded(r)
           /\ Len(responses[r][1].body.variants) = 8

C3_Witness ==
  /\ Succeeded(1)
  /\ Has(req[1].body, "config")
  /\ req[1].body.config \in InvalidTexts
  /\ Len(responses[1][1].body.variants) = 8

\* C4: within one request no output file name is written twice: distinct
\* entries of the plan are written to distinct files of the compressed
\* directory.
C4_DistinctEntriesDistinctFiles ==
  \A r \in Reqs :
    \A i, j \in ToFileOps(r, "compressed") :
      i # j => ops[r][i].name # ops[r][j].name

\* C5: a request without an image is answered 400 before anything else
\* runs: nothing is written, no decode or encode is called and the config
\* is not parsed.
C5_NoImageRejectedWithoutEffects ==
  \A r \in Reqs :
    (pc[r] # "idle" /\ ~Has(req[r], "file")) =>
      /\ pc[r] \in {"received", "done"}
      /\ ops[r] = <<>>
      /\ \A dir \in DOMAIN files : \A n \in DOMAIN files[dir] : files[dir][n].by # r
      /\ pc[r] = "done" =>
           /\ Len(responses[r]) = 1
           /\ responses[r][1].status = 400

C5_Witness ==
  /\ pc[1] = "done"
  /\ ~Has(req[1], "file")
  /\ Has(req[1].body, "config")
  /\ JSONParse(req[1].body.config).ok
  /\ responses[1] = <<BadRequest>>

\* C6: for two buffers of the same non-empty length, a multiple of 4,
\* computePSNR is Infinity exactly when all R, G and B bytes agree, whatever
\* the alpha bytes; the alpha bytes never change the result.
ZeroAlpha(buf) == [i \in DOMAIN buf |-> IF i % 4 = 0 THEN 0 ELSE buf[i]]

C6_InfinityIffRGBEqualAlphaIgnored ==
  (Len(buf1) > 0 /\ Len(buf1) = Len(buf2) /\ Len(buf1) % 4 = 0) =>
    /\ (psnrOut = Infinity) =
         (\A i \in DOMAIN buf1 : i % 4 # 0 => buf1[i] = buf2[i])
    /\ psnrOut = computePSNR(ZeroAlpha(buf1), ZeroAlpha(buf2))
    /\ psnrOut.kind \in {"Infinity", "dB"}

C6_Witness ==
  /\ Len(buf1) > 0
  /\ edits > 0
  /\ psnrOut = Infinity
  /\ \E i \in DOMAIN buf1 : i % 4 = 0 /\ buf1[i] # buf2[i]

\* C7: the psnr of an emitted result is null exactly when the re-decoded
\* buffer's length differs from the baseline's or the baseline's decoded
\* width/height differ from the metadata's; the result is still emitted
\* with its size and ratio and the request still succeeds; otherwise psnr
\* is computePSNR(baseline, re-decoded).
Incomparable(r) ==
  \/ Len(compressedRaw[r]) # Len(originalRaw[r])
  \/ originalInfo[r].width # metadata[r].width
  \/ originalInfo[r].height # metadata[r].height

C7_PsnrNullIffIncomparable ==
  \A r \in Reqs :
    /\ results[r] # <<>> =>
         LET latest == Last(results[r]) IN
         /\ (latest.psnr = Null) = Incomparable(r)
         /\ ~Incomparable(r) =>
              latest.psnr = computePSNR(originalRaw[r], compressedRaw[r])
         /\ latest.size > 0
         /\ latest.compressionRatio = <<originalSize[r], latest.size>>
    /\ (Answered(r) /\ Has(req[r], "file") /\ failedAt[r] = "none") =>
         /\ Succeeded(r)
         /\ responses[r][1].body.variants = results[r]

C7_Witness ==
  /\ Succeeded(1)
  /\ Len(compressedRaw[1]) # Len(originalRaw[1])
  /\ \E k \in DOMAIN responses[1][1].body.variants :
       /\ responses[1][1].body.variants[k].psnr = Null
       /\ responses[1][1].body.variants[k].size > 0
  /\ \E k \in DOMAIN responses[1][1].body.variants :
       responses[1][1].body.variants[k].psnr.kind = "dB"

AloneResult(r, cfg) ==
  LET format == CfgFormat(cfg)
      qualityPercent == qualityToPercent(CfgQ(cfg))
      buffer == req[r].file.buffer
      data == Encoded(buffer, format, qualityPercent)
      name == OutFileName(baseName[r], format, qualityPercent)
      comparable == /\ Len(DecodedRaw(data)) = Len(SharpRaw(buffer).data)
                    /\ SharpRaw(buffer).info.width = SharpMetadata(buffer).width
                    /\ SharpRaw(buffer).info.height = SharpMetadata(buffer).height
  IN [label |-> CfgLabel(cfg),
      format |-> format,
      quality |-> qualityPercent,
      fileName |-> name,
      url |-> <<"/uploads/compressed/", name>>,
      size |-> StatSize(data),
      compressionRatio |-> <<StatSize(Encoded(buffer, "png", 100)), StatSize(data)>>,
      psnr |-> IF comparable
               THEN computePSNR(SharpRaw(buffer).data, DecodedRaw(data)) ELSE Null,
      lossType |-> CfgLossType(cfg)]

AloneBody(r) ==
  LET plan == ResolveConfig(req[r].body).plan
      pos == KnownPositions(plan, 1)
      buffer == req[r].file.buffer
  IN [original |-> [fileName |-> OriginalFileName(baseName[r]),
                    url |-> <<"/uploads/original/", OriginalFileName(baseName[r])>>,
                    size |-> StatSize(Encoded(buffer, "png", 100)),
                    width |-> SharpMetadata(buffer).width,
                    height |-> SharpMetadata(buffer).height,
                    format |-> SharpMetadata(buffer).format,
                    name |-> req[r].file.originalname],
      variants |-> [k \in DOMAIN pos |-> AloneResult(r, plan[pos[k]])]]

Isolated ==
  \A r \in Reqs :
    /\ \A i \in ToFileOps(r, "original") \cup ToFileOps(r, "compressed") :
         ops[r][i].prev \in {0, r}
    /\ \A i \in DecodeOps(r) : ops[r][i].by = r
    /\ Answered(r) =>
         /\ Len(responses[r]) = 1
         /\ IF failedAt[r] # "none"
            THEN responses[r][1] = ServerError
            ELSE responses[r][1] = [status |-> 200, body |-> AloneBody(r)]

\* C9 as stated: under any interleaving of two concurrent requests no
\* request writes, overwrites or re-decodes a file written by the other,
\* and each response is the one the request produces alone.
C9_IsolatedUnderAnyInterleaving == Isolated

\* C9 as amended: the same, for two concurrent requests whose baseName
\* (timestamp plus random suffix) differ.
C9_IsolatedWhenBaseNamesDiffer ==
  (baseName[1] # baseName[2]) => Isolated

C9_Witness ==
  /\ baseName[1] # baseName[2]
  /\ Succeeded(1) /\ Succeeded(2)
  /\ req[1].file.buffer # req[2].file.buffer
  /\ \E k1 \in DOMAIN results[1], k2 \in DOMAIN results[2] :
       /\ results[1][k1].format = results[2][k2].format
       /\ results[1][k1].quality = results[2][k2].quality
       /\ results[1][k1].fileName # results[2][k2].fileName
  /\ Last(results[1]) = AloneResult(1, Last(variantsConfig[1]))

\* C10: for a plan entry without a label, the quality shown in the
\* synthesized label is the quality that is normalised, used for encoding
\* and reported: the entry's own quality when supplied (0 included), and
\* 0.8 only when it is missing.
C10_LabelShowsQualityUsed ==
  \A r \in Reqs :
    LET plan == variantsConfig[r]
        pos == KnownPositions(plan, 1)
    IN \A k \in DOMAIN results[r] :
         LET cfg == plan[pos[k]]
             used == IF Has(cfg, "quality") THEN cfg.quality ELSE 800
         IN ~Has(cfg, "label") =>
              /\ results[r][k].label.quality = used
              /\ results[r][k].quality = qualityToPercent(used)

====
